---------------------------- MODULE Spec2Model ----------------------------
(***************************************************************************)
(* Model of the Timeline Editor launcher, TimelineEditor/qt/main.cpp.      *)
(*                                                                         *)
(* main is a straight-line sequence of eight statements with one branch.   *)
(* Each statement is one action; the blocking call app.exec() is two       *)
(* (the event loop is entered, the event loop returns).  What the          *)
(* framework decides is an input drawn from a small set: the command line  *)
(* main receives, the root objects the load produces and the value the     *)
(* event loop returns.                                                     *)
(***************************************************************************)
EXTENDS Integers, Sequences, FiniteSets, TLC

VARIABLES
    pc,                   \* index into Program of the next statement of main
    argc, argv,           \* main's parameters (line 6)
    received,             \* the command line the process was started with
    attributes,           \* QCoreApplication's application attributes
    filterRules,          \* QLoggingCategory's current filter rules
    app,                  \* the QGuiApplication object `app`
    webEngineInitialized, \* whether QtWebEngine::initialize() has run
    engine,               \* the QQmlApplicationEngine object `engine`
    loads,                \* the URLs engine.load() was asked for, in order
    inEventLoop,          \* main is blocked inside app.exec()
    execCount,            \* how many times app.exec() was entered
    execResult,           \* <<r>> once the event loop has returned r
    exitStatus,           \* <<s>> once main has returned s
    calls                 \* every framework call main has made, in order

vars == << pc, argc, argv, received, attributes, filterRules, app,
           webEngineInitialized, engine, loads, inEventLoop, execCount,
           execResult, exitStatus, calls >>

---------------------------------------------------------------------------
(* Bounds of the model. *)

MaxArgs == 2          \* command-line arguments after the program name
MaxRootObjects == 2   \* root objects one load can produce
MaxExitCode == 2      \* the event loop returns -MaxExitCode..MaxExitCode

---------------------------------------------------------------------------
(* Values of the program. *)

AA_EnableHighDpiScaling == "Qt::AA_EnableHighDpiScaling"

WebEngineRules == "qt.webengine*=true"

MainQml == "qrc:/main.qml"

FailureStatus == -1

ProgramName == "TimelineEditor"

ArgStrings == {"-platform", "project.tl"}

RECURSIVE SeqsUpTo(_, _)
SeqsUpTo(S, n) ==
    IF n = 0 THEN {<< >>}
    ELSE LET shorter == SeqsUpTo(S, n - 1)
         IN  shorter \cup {Append(s, x) : s \in shorter, x \in S}

(* The command lines main can be started with: the program name followed   *)
(* by at most MaxArgs arguments.                                           *)
CommandLines == {<<ProgramName>> \o s : s \in SeqsUpTo(ArgStrings, MaxArgs)}

(* What engine.load can leave in the engine: none, or 1..n root objects.   *)
RootObjectLists == {[i \in 1..n |-> i] : n \in 0..MaxRootObjects}

(* What the event loop can return: any int, FailureStatus included.        *)
ExecCodes == (0 - MaxExitCode)..MaxExitCode

None == << >>
Some(v) == <<v>>

isEmpty(list) == Len(list) = 0

---------------------------------------------------------------------------
(* The statements of main in program order. *)

Program_AppBeforeAttribute ==
    << "QGuiApplication", "setAttribute", "setFilterRules", "initialize",
       "QQmlApplicationEngine", "load", "rootObjects", "exec" >>

Program_InitializeBeforeRules ==
    << "setAttribute", "QGuiApplication", "initialize", "setFilterRules",
       "QQmlApplicationEngine", "load", "rootObjects", "exec" >>

Program_InitializeAfterLoad ==
    << "setAttribute", "setFilterRules", "QGuiApplication",
       "QQmlApplicationEngine", "load", "initialize", "rootObjects", "exec" >>

Program ==
    << "setAttribute", "setFilterRules", "QGuiApplication", "initialize",
       "QQmlApplicationEngine", "load", "rootObjects", "exec" >>

Returned == Len(Program) + 1

Stmt == IF pc \in DOMAIN Program THEN Program[pc] ELSE "returned"

IndexOf(name) == CHOOSE i \in DOMAIN Program : Program[i] = name

---------------------------------------------------------------------------
(* The state main starts in: nothing configured, nothing constructed.      *)

Init ==
    /\ pc = 1
    /\ received \in CommandLines
    /\ argv = received
    /\ argc = Len(received)
    /\ attributes = {}
    /\ filterRules = ""
    /\ app = [constructed |-> FALSE, argc |-> 0, argv |-> << >>,
              highDpiScaling |-> FALSE]
    /\ webEngineInitialized = FALSE
    /\ engine = [constructed |-> FALSE, rootObjects |-> << >>]
    /\ loads = << >>
    /\ inEventLoop = FALSE
    /\ execCount = 0
    /\ execResult = None
    /\ exitStatus = None
    /\ calls = << >>

---------------------------------------------------------------------------
(* Line 8: QCoreApplication::setAttribute(Qt::AA_EnableHighDpiScaling).    *)
SetAttribute ==
    /\ Stmt = "setAttribute"
    /\ attributes' = attributes \cup {AA_EnableHighDpiScaling}
    /\ calls' = Append(calls, "setAttribute")
    /\ pc' = pc + 1
    /\ UNCHANGED << argc, argv, received, filterRules, app,
                    webEngineInitialized, engine, loads, inEventLoop,
                    execCount, execResult, exitStatus >>

(* Line 11: QLoggingCategory::setFilterRules("qt.webengine*=true").        *)
SetFilterRules ==
    /\ Stmt = "setFilterRules"
    /\ filterRules' = WebEngineRules
    /\ calls' = Append(calls, "setFilterRules")
    /\ pc' = pc + 1
    /\ UNCHANGED << argc, argv, received, attributes, app,
                    webEngineInitialized, engine, loads, inEventLoop,
                    execCount, execResult, exitStatus >>

(* Line 13: QGuiApplication app(argc, argv).  The application object keeps *)
(* the command line it was given and whether high-DPI scaling was enabled  *)
(* when it was constructed.                                                *)
ConstructApp_DropArgs ==
    /\ Stmt = "QGuiApplication"
    /\ app' = [constructed |-> TRUE, argc |-> 1, argv |-> SubSeq(argv, 1, 1),
               highDpiScaling |-> AA_EnableHighDpiScaling \in attributes]
    /\ calls' = Append(calls, "QGuiApplication")
    /\ pc' = pc + 1
    /\ UNCHANGED << argc, argv, received, attributes, filterRules,
                    webEngineInitialized, engine, loads, inEventLoop,
                    execCount, execResult, exitStatus >>

ConstructApp ==
    /\ Stmt = "QGuiApplication"
    /\ app' = [constructed |-> TRUE, argc |-> argc, argv |-> argv,
               highDpiScaling |-> AA_EnableHighDpiScaling \in attributes]
    /\ calls' = Append(calls, "QGuiApplication")
    /\ pc' = pc + 1
    /\ UNCHANGED << argc, argv, received, attributes, filterRules,
                    webEngineInitialized, engine, loads, inEventLoop,
                    execCount, execResult, exitStatus >>

(* Line 14: QtWebEngine::initialize().                                     *)
InitializeWebEngine ==
    /\ Stmt = "initialize"
    /\ webEngineInitialized' = TRUE
    /\ calls' = Append(calls, "initialize")
    /\ pc' = pc + 1
    /\ UNCHANGED << argc, argv, received, attributes, filterRules, app,
                    engine, loads, inEventLoop, execCount, execResult,
                    exitStatus >>

(* Line 16: QQmlApplicationEngine engine.  A new engine has no root        *)
(* objects.                                                                *)
ConstructEngine ==
    /\ Stmt = "QQmlApplicationEngine"
    /\ engine' = [constructed |-> TRUE, rootObjects |-> << >>]
    /\ calls' = Append(calls, "QQmlApplicationEngine")
    /\ pc' = pc + 1
    /\ UNCHANGED << argc, argv, received, attributes, filterRules, app,
                    webEngineInitialized, loads, inEventLoop, execCount,
                    execResult, exitStatus >>

(* Line 17: engine.load(QUrl(QStringLiteral("qrc:/main.qml"))).  load      *)
(* returns nothing; the engine is left with the root objects the UI        *)
(* description produced, none when the resource is absent or in error.     *)
Load_FilePath ==
    /\ Stmt = "load"
    /\ \E objects \in RootObjectLists :
           engine' = [engine EXCEPT !.rootObjects = @ \o objects]
    /\ loads' = Append(loads, "main.qml")
    /\ calls' = Append(calls, "load")
    /\ pc' = pc + 1
    /\ UNCHANGED << argc, argv, received, attributes, filterRules, app,
                    webEngineInitialized, inEventLoop, execCount,
                    execResult, exitStatus >>

Load ==
    /\ Stmt = "load"
    /\ \E objects \in RootObjectLists :
           engine' = [engine EXCEPT !.rootObjects = @ \o objects]
    /\ loads' = Append(loads, MainQml)
    /\ calls' = Append(calls, "load")
    /\ pc' = pc + 1
    /\ UNCHANGED << argc, argv, received, attributes, filterRules, app,
                    webEngineInitialized, inEventLoop, execCount,
                    execResult, exitStatus >>

(* Lines 19-20: if (engine.rootObjects().isEmpty()) return -1.             *)
CheckRootObjects_WrongStatus ==
    /\ Stmt = "rootObjects"
    /\ calls' = Append(calls, "rootObjects")
    /\ IF isEmpty(engine.rootObjects)
         THEN /\ exitStatus' = Some(1)
              /\ pc' = Returned
         ELSE /\ exitStatus' = exitStatus
              /\ pc' = pc + 1
    /\ UNCHANGED << argc, argv, received, attributes, filterRules, app,
                    webEngineInitialized, engine, loads, inEventLoop,
                    execCount, execResult >>

CheckRootObjects_Inverted ==
    /\ Stmt = "rootObjects"
    /\ calls' = Append(calls, "rootObjects")
    /\ IF ~isEmpty(engine.rootObjects)
         THEN /\ exitStatus' = Some(FailureStatus)
              /\ pc' = Returned
         ELSE /\ exitStatus' = exitStatus
              /\ pc' = pc + 1
    /\ UNCHANGED << argc, argv, received, attributes, filterRules, app,
                    webEngineInitialized, engine, loads, inEventLoop,
                    execCount, execResult >>

CheckRootObjects_Retry ==
    /\ Stmt = "rootObjects"
    /\ calls' = Append(calls, "rootObjects")
    /\ IF isEmpty(engine.rootObjects)
         THEN IF Len(loads) < 2
                THEN /\ exitStatus' = exitStatus
                     /\ pc' = IndexOf("load")
                ELSE /\ exitStatus' = Some(FailureStatus)
                     /\ pc' = Returned
         ELSE /\ exitStatus' = exitStatus
              /\ pc' = pc + 1
    /\ UNCHANGED << argc, argv, received, attributes, filterRules, app,
                    webEngineInitialized, engine, loads, inEventLoop,
                    execCount, execResult >>

CheckRootObjects ==
    /\ Stmt = "rootObjects"
    /\ calls' = Append(calls, "rootObjects")
    /\ IF isEmpty(engine.rootObjects)
         THEN /\ exitStatus' = Some(FailureStatus)
              /\ pc' = Returned
         ELSE /\ exitStatus' = exitStatus
              /\ pc' = pc + 1
    /\ UNCHANGED << argc, argv, received, attributes, filterRules, app,
                    webEngineInitialized, engine, loads, inEventLoop,
                    execCount, execResult >>

(* Line 22, the call: app.exec() is entered and main blocks in it.         *)
ExecEnter ==
    /\ Stmt = "exec"
    /\ ~inEventLoop
    /\ inEventLoop' = TRUE
    /\ execCount' = execCount + 1
    /\ calls' = Append(calls, "exec")
    /\ UNCHANGED << pc, argc, argv, received, attributes, filterRules, app,
                    webEngineInitialized, engine, loads, execResult,
                    exitStatus >>

(* Line 22, the return: the event loop returns r and main returns it.      *)
ExecReturn_Discard ==
    /\ Stmt = "exec"
    /\ inEventLoop
    /\ \E r \in ExecCodes :
           /\ execResult' = Some(r)
           /\ exitStatus' = Some(0)
    /\ inEventLoop' = FALSE
    /\ pc' = Returned
    /\ UNCHANGED << argc, argv, received, attributes, filterRules, app,
                    webEngineInitialized, engine, loads, execCount, calls >>

ExecReturn_Timeout ==
    /\ Stmt = "exec"
    /\ inEventLoop
    /\ \/ \E r \in ExecCodes :
              /\ execResult' = Some(r)
              /\ exitStatus' = Some(r)
       \/ /\ execResult' = execResult
          /\ exitStatus' = Some(0)
    /\ inEventLoop' = FALSE
    /\ pc' = Returned
    /\ UNCHANGED << argc, argv, received, attributes, filterRules, app,
                    webEngineInitialized, engine, loads, execCount, calls >>

ExecReturn ==
    /\ Stmt = "exec"
    /\ inEventLoop
    /\ \E r \in ExecCodes :
           /\ execResult' = Some(r)
           /\ exitStatus' = Some(r)
    /\ inEventLoop' = FALSE
    /\ pc' = Returned
    /\ UNCHANGED << argc, argv, received, attributes, filterRules, app,
                    webEngineInitialized, engine, loads, execCount, calls >>

---------------------------------------------------------------------------

(* The steps main takes by itself, one statement after the other.          *)
MainStep ==
    \/ SetAttribute
    \/ SetFilterRules
    \/ ConstructApp
    \/ InitializeWebEngine
    \/ ConstructEngine
    \/ Load
    \/ CheckRootObjects
    \/ ExecEnter

Next ==
    \/ SetAttribute
    \/ SetFilterRules
    \/ ConstructApp
    \/ InitializeWebEngine
    \/ ConstructEngine
    \/ Load
    \/ CheckRootObjects
    \/ ExecEnter
    \/ ExecReturn

Spec == Init /\ [][Next]_vars

(* main's own statements always run to completion; whether the event loop *)
(* ever returns is up to the framework and the user, so ExecReturn is not  *)
(* fair.                                                                   *)
LiveSpec == Init /\ [][Next]_vars /\ WF_vars(MainStep)

---------------------------------------------------------------------------
(* Shorthands for the properties. *)

Exited == exitStatus # None

Loaded == "load" \in {calls[i] : i \in DOMAIN calls}

Called(name) == \E i \in DOMAIN calls : calls[i] = name

TimesCalled(name) == Cardinality({i \in DOMAIN calls : calls[i] = name})

CallIndex(name) == CHOOSE i \in DOMAIN calls : calls[i] = name

LoadFailed == Loaded /\ isEmpty(engine.rootObjects)

LoadSucceeded == Loaded /\ ~isEmpty(engine.rootObjects)

SetupCalls ==
    << "setAttribute", "setFilterRules", "QGuiApplication", "initialize",
       "QQmlApplicationEngine", "load", "rootObjects" >>

TypeOK ==
    /\ pc \in 1..Returned
    /\ received \in CommandLines
    /\ attributes \subseteq {AA_EnableHighDpiScaling}
    /\ filterRules \in {"", WebEngineRules}
    /\ webEngineInitialized \in BOOLEAN
    /\ inEventLoop \in BOOLEAN
    /\ execCount \in 0..1
    /\ execResult \in {None} \cup {Some(r) : r \in ExecCodes}
    /\ exitStatus \in {None} \cup {Some(r) : r \in ExecCodes \cup {FailureStatus}}

---------------------------------------------------------------------------
(* C1: whenever the load has left the engine without root objects, the     *)
(* event loop has not been entered and is not entered later; once the      *)
(* root-object check has run main has returned, and the status it returns  *)
(* is exactly -1.                                                          *)
C1_LoadFailureReturnsMinusOne ==
    LoadFailed =>
        /\ execCount = 0
        /\ ~inEventLoop
        /\ ~Called("exec")
        /\ Called("rootObjects") => Exited
        /\ Exited => exitStatus = Some(0 - 1)

C1_Witness ==
    /\ LoadFailed
    /\ Exited
    /\ exitStatus = Some(0 - 1)
    /\ execCount = 0

(* C2: when the load has produced at least one root object the event loop  *)
(* is entered at most once, and once main has returned it has been entered *)
(* exactly once and main's status is the value the event loop returned.    *)
C2_ExitStatusIsEventLoopResult ==
    LoadSucceeded =>
        /\ execCount <= 1
        /\ TimesCalled("exec") = execCount
        /\ Exited => /\ execCount = 1
                     /\ execResult # None
                     /\ exitStatus = execResult

C2_Witness ==
    /\ LoadSucceeded
    /\ Exited
    /\ execCount = 1
    /\ execResult = Some(1)
    /\ exitStatus = Some(1)

(* C3 as stated: after a successful load the exit status is never -1.      *)
C3_Original ==
    (LoadSucceeded /\ Exited) => exitStatus # Some(FailureStatus)

(* C3 as amended: main returns -1 only when the load produced no root      *)
(* objects or the event loop itself returned -1.                           *)
C3_MinusOneOnlyFromFailureOrEventLoop ==
    (Exited /\ exitStatus = Some(FailureStatus)) =>
        \/ LoadFailed
        \/ execResult = Some(FailureStatus)

C3_Witness ==
    /\ LoadSucceeded
    /\ Exited
    /\ execResult = Some(FailureStatus)
    /\ exitStatus = Some(FailureStatus)

(* C4: the application object is constructed with high-DPI scaling already *)
(* enabled: setAttribute is called before the QGuiApplication constructor, *)
(* and while the attribute is unset nothing graphical exists.              *)
C4_HighDpiAttributeBeforeApp ==
    /\ app.constructed =>
           /\ app.highDpiScaling
           /\ AA_EnableHighDpiScaling \in attributes
           /\ CallIndex("setAttribute") < CallIndex("QGuiApplication")
    /\ AA_EnableHighDpiScaling \notin attributes =>
           /\ ~app.constructed
           /\ ~engine.constructed
           /\ ~webEngineInitialized
           /\ calls = << >>

C4_Witness ==
    /\ app.constructed
    /\ app.highDpiScaling
    /\ calls = << "setAttribute", "setFilterRules", "QGuiApplication" >>

(* C5: the web-engine filter rule is in force whenever the web engine is   *)
(* initialized, was set before the initialization, is set once only and,   *)
(* from the call that sets it on, stays in force to the end of main.       *)
C5_FilterRulesBeforeWebEngine ==
    /\ webEngineInitialized =>
           /\ filterRules = WebEngineRules
           /\ CallIndex("setFilterRules") < CallIndex("initialize")
    /\ Called("setFilterRules") =>
           /\ filterRules = WebEngineRules
           /\ TimesCalled("setFilterRules") = 1
    /\ ~Called("setFilterRules") => filterRules = ""

C5_Witness ==
    /\ webEngineInitialized
    /\ Exited
    /\ filterRules = WebEngineRules

(* C6: the web engine is initialized after the application object exists   *)
(* and before the UI engine is constructed and the resource is loaded: no  *)
(* UI engine, load request or root object exists while the web engine is   *)
(* uninitialized.                                                          *)
C6_WebEngineBetweenAppAndLoad ==
    /\ webEngineInitialized =>
           /\ app.constructed
           /\ CallIndex("QGuiApplication") < CallIndex("initialize")
    /\ ~webEngineInitialized =>
           /\ ~engine.constructed
           /\ loads = << >>
           /\ isEmpty(engine.rootObjects)
    /\ engine.constructed =>
           CallIndex("initialize") < CallIndex("QQmlApplicationEngine")
    /\ Loaded => CallIndex("QQmlApplicationEngine") < CallIndex("load")

C6_Witness ==
    /\ webEngineInitialized
    /\ LoadSucceeded
    /\ ~Called("rootObjects")

(* C7: main never changes argc or argv, the application object receives    *)
(* exactly the command line the process was started with, and for every    *)
(* command line the branch taken at the root-object check is decided by    *)
(* the root objects alone.                                                 *)
C7_ArgumentsPassedThrough ==
    /\ argv = received
    /\ argc = Len(received)
    /\ app.constructed => /\ app.argc = Len(received)
                          /\ app.argv = received
    /\ Called("rootObjects") =>
           IF isEmpty(engine.rootObjects)
             THEN Exited /\ execCount = 0
             ELSE pc = IndexOf("exec") \/ execResult # None

C7_Witness ==
    /\ app.constructed
    /\ Len(received) > 1
    /\ app.argv = received
    /\ app.argc = Len(received)
    /\ Called("rootObjects")

(* C8: the load is requested at most once, exactly once by the time of the *)
(* root-object check; after a failed load main's calls are the seven setup *)
(* calls and nothing else, the web engine is left initialized and main     *)
(* returns -1.                                                             *)
C8_LoadFailureIsFatalNoRetry ==
    /\ Len(loads) <= 1
    /\ TimesCalled("load") = Len(loads)
    /\ Called("rootObjects") => Len(loads) = 1
    /\ LoadFailed =>
           /\ calls \in {SubSeq(SetupCalls, 1, 6), SetupCalls}
           /\ webEngineInitialized
           /\ app.constructed
           /\ engine.constructed
           /\ Exited => /\ calls = SetupCalls
                        /\ exitStatus = Some(FailureStatus)

C8_Witness ==
    /\ LoadFailed
    /\ Exited
    /\ calls = SetupCalls
    /\ loads = << MainQml >>

(* C9: when the event loop is entered all setup steps have been done, once *)
(* each and in program order, the resource loaded is qrc:/main.qml, and    *)
(* the root-object check lies between the load and the event loop.         *)
C9_EventLoopOnlyAfterSetup ==
    (inEventLoop \/ execCount > 0) =>
        /\ calls = SetupCalls \o << "exec" >>
        /\ AA_EnableHighDpiScaling \in attributes
        /\ filterRules = WebEngineRules
        /\ app.constructed
        /\ webEngineInitialized
        /\ engine.constructed
        /\ loads = << MainQml >>
        /\ ~isEmpty(engine.rootObjects)

C9_Witness ==
    /\ inEventLoop
    /\ execCount = 1
    /\ calls = SetupCalls \o << "exec" >>

(* C10: after a failed load main returns without ever being in the event   *)
(* loop; after a successful load main has returned only if the event loop  *)
(* has returned, main leaves the event loop by the loop's return alone,    *)
(* and in the step in which the loop returns main returns too.             *)
C10_TerminationFollowsEventLoop ==
    /\ LoadFailed ~> (Exited /\ execCount = 0)
    /\ [](LoadFailed => ~inEventLoop)
    /\ []((LoadSucceeded /\ Exited) => execResult # None)
    /\ [][(inEventLoop /\ ~inEventLoop') => (execResult' # None /\ Exited')]_vars
    /\ [][(execResult = None /\ execResult' # None) =>
              (Exited' /\ exitStatus' = execResult')]_vars

C10_Witness ==
    /\ LoadSucceeded
    /\ Exited
    /\ ~inEventLoop
    /\ execResult # None

===========================================================================
